---- MODULE Spec2Model ----
(***************************************************************************)
(* Model of the quote scraper: run.py's main() and Scraper.scrape() with   *)
(* the operations it calls (start_playwright, page.goto, wait_for_quotes,  *)
(* process_page, the next-button lookup and click, stop_playwright).       *)
(*                                                                         *)
(* The web site is the environment.  A page is determined the first time   *)
(* the browser loads its address and stays fixed afterwards (site).  The   *)
(* output file is the variable store; it outlives a run of the process.    *)
(***************************************************************************)
EXTENDS Integers, Sequences, FiniteSets, TLC

\* ---------------------------------------------------------------- bounds
MaxPages == 2
MaxQuotes == 2
MaxIter == 3
MaxRuns == 2
MaxText == 4

\* ----------------------------------------------------------- environment
None == "None"

Glyphs == <<"a", "b", "c", "d", "e", "f">>

Letter(n) == Glyphs[n]

\* Addresses of the site's pages.
Addrs == {Letter(n) : n \in 1..MaxPages}

\* The quote glyph the site wraps a quote's text in.
Quote == "\""

\* A node found by a marker lookup is a one-element sequence holding the
\* node's content; <<>> is a lookup that matched nothing (find returns None).
Found(x) == <<x>>

NotFound == <<>>

\* A child of the tag container: an a.tag element or something else.
TagLink(t) == [cls |-> "tag", text |-> t]

MetaNode == [cls |-> "keywords", text |-> <<>>]

\* A div.quote container of page a at position i with all three sub-elements;
\* the text names the page and the position, so records are distinguishable.
GoodQuote(a, i) ==
    [text   |-> Found(<<Quote, a, Letter(i), Quote>>),
     author |-> Found(<<"x", a>>),
     tags   |-> Found(<<MetaNode, TagLink(<<"t", Letter(i)>>)>>)]

\* A div.quote container without the small.author sub-element.
BadQuote(a, i) == [GoodQuote(a, i) EXCEPT !.author = NotFound]

QuoteOfKind(k, a, i) == IF k = "good" THEN GoodQuote(a, i) ELSE BadQuote(a, i)

Shapes == UNION {[1..n -> {"good", "bad"}] : n \in 0..MaxQuotes}

\* The renderings address a can have on the site of a run.
SitePages(a) ==
    {[fetched |-> TRUE,
      quotes  |-> [i \in 1..Len(sh) |-> QuoteOfKind(sh[i], a, i)],
      next    |-> nx] : sh \in Shapes, nx \in Addrs \cup {None}}

Unfetched == [fetched |-> FALSE, quotes |-> <<>>, next |-> None]

\* Pools of sub-elements for the extraction specification.
TextPool == {NotFound, Found(<<>>), Found(<<Quote, Quote>>), Found(<<Quote, "a", Quote>>)}

AuthorPool == {NotFound, Found(<<>>), Found(<<"x">>)}

TagsPool == {NotFound, Found(<<>>), Found(<<MetaNode>>),
             Found(<<TagLink(<<"t">>), MetaNode, TagLink(<<"u">>)>>)}

QuotePool == [text : TextPool, author : AuthorPool, tags : TagsPool]

AnyPages ==
    {[fetched |-> TRUE, quotes |-> qs, next |-> None] :
        qs \in UNION {[1..n -> QuotePool] : n \in 0..MaxQuotes}}

\* The address the site's first page is at.
StartUrl == Letter(1)

\* The configurations load_dotenv/os.getenv can produce.
Envs == [PROXY : {None, "user:pw@host:8080"},
         INPUT_URL : {None, StartUrl},
         OUTPUT_FILE : {None, "out.jsonl"}]

VARIABLES
    pc,          \* position of the process
    env,         \* config read by main
    input_url,   \* Scraper.input_url
    output_file, \* Scraper.output_file
    proxy_url,   \* Scraper.proxy_url
    playwright,  \* Scraper.playwright: "none", "started", "stopped"
    browser,     \* Scraper.browser: "none", "open", "closed"
    proxied,     \* browser launched with proxy settings
    page_url,    \* the browser page's current address (page.url)
    site,        \* the pages of the site, as far as they were loaded
    store,       \* the lines of the output file, one record per line
    runs,        \* number of process runs started
    iter,        \* iterations of the scrape loop begun in this run
    starts,      \* calls of start_playwright that succeeded in this run
    stops,       \* calls of stop_playwright in this run
    failure,     \* the operation whose exception ended the run
    visited,     \* addresses whose process_page call returned, in order
    store0,      \* the store when this run began
    prev,        \* the previous run: its start address, outcome and stores
    ops          \* the operations this run has attempted, in order

vars == <<pc, env, input_url, output_file, proxy_url, playwright, browser,
          proxied, page_url, site, store, runs, iter, starts, stops, failure,
          visited, store0, prev, ops>>

NoEnv == [PROXY |-> None, INPUT_URL |-> None, OUTPUT_FILE |-> None]

NoRun == [input |-> None, outcome |-> None, store0 |-> <<>>, store1 |-> <<>>,
          visited |-> <<>>]


\* --------------------------------------------------------- pure functions
\* Variant: the text is stripped of its ends only when both are quote glyphs.
StripEnds_OnlyQuotes(s) ==
    IF s # <<>> /\ s[1] = Quote /\ s[Len(s)] = Quote
    THEN SubSeq(s, 2, Len(s) - 1)
    ELSE s

\* Python's s[1:-1]: drops the first and the last character.
StripEnds(s) == SubSeq(s, 2, Len(s) - 1)

IsTagLink(n) == n.cls = "tag"

\* Variant: the texts of all children of the tag container are taken.
TagTexts_AllChildren(children) == [i \in 1..Len(children) |-> children[i].text]

\* [tag.text for tag in container.find_all('a', class_='tag')]
TagTexts(children) ==
    LET links == SelectSeq(children, IsTagLink)
    IN  [i \in 1..Len(links) |-> links[i].text]

\* A find() of the quote's three sub-elements that returns None makes the
\* attribute access on it raise.
Raises(q) == q.text = NotFound \/ q.author = NotFound \/ q.tags = NotFound

RecordOf(q) ==
    [text |-> StripEnds(q.text[1]), by |-> q.author[1], tags |-> TagTexts(q.tags[1])]

\* Variant: the loop puts each record in front of what the file holds.
RECURSIVE WriteQuotes_Prepends(_, _, _)
WriteQuotes_Prepends(quotes, i, sink) ==
    IF i > Len(quotes) THEN [sink |-> sink, raised |-> FALSE]
    ELSE IF Raises(quotes[i]) THEN [sink |-> sink, raised |-> TRUE]
    ELSE WriteQuotes_Prepends(quotes, i + 1, <<RecordOf(quotes[i])>> \o sink)

\* Variant: the loop does not write a record the file already holds.
RECURSIVE WriteQuotes_SkipsKnown(_, _, _)
WriteQuotes_SkipsKnown(quotes, i, sink) ==
    IF i > Len(quotes) THEN [sink |-> sink, raised |-> FALSE]
    ELSE IF Raises(quotes[i]) THEN [sink |-> sink, raised |-> TRUE]
    ELSE WriteQuotes_SkipsKnown(quotes, i + 1,
            IF \E j \in 1..Len(sink) : sink[j] = RecordOf(quotes[i])
            THEN sink ELSE Append(sink, RecordOf(quotes[i])))

\* Variant: the loop skips a container that lacks a sub-element.
RECURSIVE WriteQuotes_SkipsBad(_, _, _)
WriteQuotes_SkipsBad(quotes, i, sink) ==
    IF i > Len(quotes) THEN [sink |-> sink, raised |-> FALSE]
    ELSE IF Raises(quotes[i]) THEN WriteQuotes_SkipsBad(quotes, i + 1, sink)
    ELSE WriteQuotes_SkipsBad(quotes, i + 1, Append(sink, RecordOf(quotes[i])))

\* The for loop of process_page from container i on, writing to sink: the
\* writer appends each record as it is built; an exception leaves the loop
\* and the with block closes the file with what was written.
RECURSIVE WriteQuotes(_, _, _)
WriteQuotes(quotes, i, sink) ==
    IF i > Len(quotes) THEN [sink |-> sink, raised |-> FALSE]
    ELSE IF Raises(quotes[i]) THEN [sink |-> sink, raised |-> TRUE]
    ELSE WriteQuotes(quotes, i + 1, Append(sink, RecordOf(quotes[i])))

\* Variant: the loop starts at the second container.
process_page_SkipsFirst(quotes, sink) == WriteQuotes(quotes, 2, sink)

\* Variant: the containers are checked before the file is written.
process_page_Atomic(quotes, sink) ==
    IF \E i \in 1..Len(quotes) : Raises(quotes[i])
    THEN [sink |-> sink, raised |-> TRUE]
    ELSE WriteQuotes(quotes, 1, sink)

\* Variant: the file is opened in mode 'w'.
process_page_Truncates(quotes, sink) == WriteQuotes(quotes, 1, <<>>)

process_page(quotes, sink) == WriteQuotes(quotes, 1, sink)

\* Variant: main tests only PROXY and INPUT_URL.
MissingVars_NoOutput(e) == {v \in {"PROXY", "INPUT_URL"} : e[v] = None}

\* main's test `None in config.values()`.
MissingVars(e) == {v \in DOMAIN e : e[v] = None}

\* The renderings the browser can get when it loads address a.
Renderings(a) == IF site[a].fetched THEN {site[a]} ELSE SitePages(a)

\* ------------------------------------------------------------------ Init
Init ==
    /\ pc = "main"
    /\ env = NoEnv
    /\ input_url = None
    /\ output_file = None
    /\ proxy_url = None
    /\ playwright = "none"
    /\ browser = "none"
    /\ proxied = FALSE
    /\ page_url = None
    /\ site = [a \in Addrs |-> Unfetched]
    /\ store = <<>>
    /\ runs = 1
    /\ iter = 0
    /\ starts = 0
    /\ stops = 0
    /\ failure = None
    /\ visited = <<>>
    /\ store0 = <<>>
    /\ prev = NoRun
    /\ ops = <<>>

\* --------------------------------------------------------------- actions
\* main with a configuration that lacks a value: prints and returns.
MainMissing ==
    /\ pc = "main"
    /\ \E e \in Envs :
        /\ MissingVars(e) # {}
        /\ env' = e
    /\ pc' = "not_started"
    /\ ops' = ops
    /\ UNCHANGED <<input_url, output_file, proxy_url, playwright, browser,
                   proxied, page_url, site, store, runs, iter, starts, stops,
                   failure, visited, store0, prev>>

\* Variant: main passes proxy_url=config['PROXY'] to the Scraper.
MainScrape_PassesProxy ==
    /\ pc = "main"
    /\ \E e \in Envs :
        /\ MissingVars(e) = {}
        /\ env' = e
        /\ input_url' = e.INPUT_URL
        /\ output_file' = e.OUTPUT_FILE
        /\ proxy_url' = e.PROXY
    /\ pc' = "start_playwright"
    /\ ops' = ops
    /\ UNCHANGED <<playwright, browser, proxied, page_url, site, store, runs,
                   iter, starts, stops, failure, visited, store0, prev>>

\* main with a full configuration: constructs the Scraper (the proxy_url
\* argument is commented out, so it keeps its default) and calls scrape.
MainScrape ==
    /\ pc = "main"
    /\ \E e \in Envs :
        /\ MissingVars(e) = {}
        /\ env' = e
        /\ input_url' = e.INPUT_URL
        /\ output_file' = e.OUTPUT_FILE
    /\ proxy_url' = None
    /\ pc' = "start_playwright"
    /\ ops' = ops
    /\ UNCHANGED <<playwright, browser, proxied, page_url, site, store, runs,
                   iter, starts, stops, failure, visited, store0, prev>>

\* scrape up to the loop: process_proxy if a proxy is set, start_playwright.
StartPlaywright ==
    /\ pc = "start_playwright"
    /\ playwright' = "started"
    /\ browser' = "open"
    /\ proxied' = (proxy_url # None)
    /\ page_url' = None
    /\ starts' = starts + 1
    /\ pc' = "goto"
    /\ ops' = IF proxy_url # None THEN ops \o <<"process_proxy", "start">> ELSE Append(ops, "start")
    /\ UNCHANGED <<env, input_url, output_file, proxy_url, site, store, runs,
                   iter, stops, failure, visited, store0, prev>>

\* chromium.launch raises: the exception leaves scrape and main.
StartPlaywrightFails ==
    /\ pc = "start_playwright"
    /\ playwright' = "started"
    /\ failure' = "start"
    /\ pc' = "failed"
    /\ ops' = IF proxy_url # None THEN ops \o <<"process_proxy", "start">> ELSE Append(ops, "start")
    /\ UNCHANGED <<env, input_url, output_file, proxy_url, browser, proxied,
                   page_url, site, store, runs, iter, starts, stops, visited,
                   store0, prev>>

\* Variant: the loop extracts the page right after goto, without the wait.
Goto_NoWait ==
    /\ pc = "goto"
    /\ iter < MaxIter
    /\ \E p \in Renderings(input_url) : site' = [site EXCEPT ![input_url] = p]
    /\ page_url' = input_url
    /\ iter' = iter + 1
    /\ pc' = "process_page"
    /\ ops' = Append(ops, "goto")
    /\ UNCHANGED <<env, input_url, output_file, proxy_url, playwright, browser,
                   proxied, store, runs, starts, stops, failure, visited,
                   store0, prev>>

\* Variant: the loop remembers the addresses it extracted and ends when the
\* target is one of them.
Goto_StopsOnRevisit ==
    /\ pc = "goto"
    /\ iter < MaxIter
    /\ \/ /\ input_url \in {visited[k] : k \in 1..Len(visited)}
          /\ pc' = "stop_playwright"
          /\ UNCHANGED <<site, page_url, iter, ops>>
       \/ /\ input_url \notin {visited[k] : k \in 1..Len(visited)}
          /\ \E p \in Renderings(input_url) : site' = [site EXCEPT ![input_url] = p]
          /\ page_url' = input_url
          /\ iter' = iter + 1
          /\ pc' = "wait_for_quotes"
          /\ ops' = Append(ops, "goto")
    /\ UNCHANGED <<env, input_url, output_file, proxy_url, playwright, browser,
                   proxied, store, runs, starts, stops, failure, visited,
                   store0, prev>>

\* page.goto(input_url) at the top of the loop.
Goto ==
    /\ pc = "goto"
    /\ iter < MaxIter
    /\ \E p \in Renderings(input_url) : site' = [site EXCEPT ![input_url] = p]
    /\ page_url' = input_url
    /\ iter' = iter + 1
    /\ pc' = "wait_for_quotes"
    /\ ops' = Append(ops, "goto")
    /\ UNCHANGED <<env, input_url, output_file, proxy_url, playwright, browser,
                   proxied, store, runs, starts, stops, failure, visited,
                   store0, prev>>

\* Variant: a goto that raised is tried again.
GotoFails_Retries ==
    /\ pc = "goto"
    /\ iter < MaxIter
    /\ iter' = iter + 1
    /\ failure' = "goto"
    /\ pc' = "goto"
    /\ ops' = Append(ops, "goto")
    /\ UNCHANGED <<env, input_url, output_file, proxy_url, playwright, browser,
                   proxied, page_url, site, store, runs, starts, stops,
                   visited, store0, prev>>

\* page.goto raises (navigation error or timeout).
GotoFails ==
    /\ pc = "goto"
    /\ iter < MaxIter
    /\ iter' = iter + 1
    /\ failure' = "goto"
    /\ pc' = "failed"
    /\ ops' = Append(ops, "goto")
    /\ UNCHANGED <<env, input_url, output_file, proxy_url, playwright, browser,
                   proxied, page_url, site, store, runs, starts, stops,
                   visited, store0, prev>>

\* wait_for_quotes returns: a div.quote is on the page.
WaitForQuotes ==
    /\ pc = "wait_for_quotes"
    /\ site[page_url].quotes # <<>>
    /\ pc' = "process_page"
    /\ ops' = Append(ops, "wait")
    /\ UNCHANGED <<env, input_url, output_file, proxy_url, playwright, browser,
                   proxied, page_url, site, store, runs, iter, starts, stops,
                   failure, visited, store0, prev>>

\* Variant: the timeout of wait_for_quotes is swallowed.
WaitForQuotesTimeout_Swallowed ==
    /\ pc = "wait_for_quotes"
    /\ site[page_url].quotes = <<>>
    /\ pc' = "process_page"
    /\ ops' = Append(ops, "wait")
    /\ UNCHANGED <<env, input_url, output_file, proxy_url, playwright, browser,
                   proxied, page_url, site, store, runs, iter, starts, stops,
                   failure, visited, store0, prev>>

\* wait_for_quotes times out: no div.quote appears.
WaitForQuotesTimeout ==
    /\ pc = "wait_for_quotes"
    /\ site[page_url].quotes = <<>>
    /\ failure' = "wait"
    /\ pc' = "failed"
    /\ ops' = Append(ops, "wait")
    /\ UNCHANGED <<env, input_url, output_file, proxy_url, playwright, browser,
                   proxied, page_url, site, store, runs, iter, starts, stops,
                   visited, store0, prev>>

\* process_page returns.
ProcessPage ==
    /\ pc = "process_page"
    /\ LET r == process_page(site[page_url].quotes, store)
       IN  /\ ~r.raised
           /\ store' = r.sink
    /\ visited' = Append(visited, page_url)
    /\ pc' = "next_button"
    /\ ops' = Append(ops, "extract")
    /\ UNCHANGED <<env, input_url, output_file, proxy_url, playwright, browser,
                   proxied, page_url, site, runs, iter, starts, stops, failure,
                   store0, prev>>

\* process_page raises on a container that lacks a sub-element.
ProcessPageRaises ==
    /\ pc = "process_page"
    /\ LET r == process_page(site[page_url].quotes, store)
       IN  /\ r.raised
           /\ store' = r.sink
    /\ failure' = "extract"
    /\ pc' = "failed"
    /\ ops' = Append(ops, "extract")
    /\ UNCHANGED <<env, input_url, output_file, proxy_url, playwright, browser,
                   proxied, page_url, site, runs, iter, starts, stops, visited,
                   store0, prev>>

\* Variant: the TimeoutError of the lookup is not caught.
NextTimeout_Raises ==
    /\ pc = "next_button"
    /\ site[page_url].next = None
    /\ failure' = "next"
    /\ pc' = "failed"
    /\ ops' = Append(ops, "next")
    /\ UNCHANGED <<env, input_url, output_file, proxy_url, playwright, browser,
                   proxied, page_url, site, store, runs, iter, starts, stops,
                   visited, store0, prev>>

\* Variant: the handler of the lookup's TimeoutError continues the loop.
NextTimeout_Continues ==
    /\ pc = "next_button"
    /\ site[page_url].next = None
    /\ pc' = "goto"
    /\ ops' = Append(ops, "next")
    /\ UNCHANGED <<env, input_url, output_file, proxy_url, playwright, browser,
                   proxied, page_url, site, store, runs, iter, starts, stops,
                   failure, visited, store0, prev>>

\* The lookup of 'li.next a' times out: break.
NextTimeout ==
    /\ pc = "next_button"
    /\ site[page_url].next = None
    /\ pc' = "stop_playwright"
    /\ ops' = Append(ops, "next")
    /\ UNCHANGED <<env, input_url, output_file, proxy_url, playwright, browser,
                   proxied, page_url, site, store, runs, iter, starts, stops,
                   failure, visited, store0, prev>>

\* Variant: the click is made but input_url is not updated.
NextClick_KeepsTarget ==
    /\ pc = "next_button"
    /\ site[page_url].next # None
    /\ LET target == site[page_url].next
       IN  /\ \E p \in Renderings(target) : site' = [site EXCEPT ![target] = p]
           /\ page_url' = target
    /\ pc' = "goto"
    /\ ops' = ops \o <<"next", "click">>
    /\ UNCHANGED <<env, input_url, output_file, proxy_url, playwright, browser,
                   proxied, store, runs, iter, starts, stops, failure, visited,
                   store0, prev>>

\* The next button is found and clicked: the browser follows the link and
\* input_url becomes page.url.
NextClick ==
    /\ pc = "next_button"
    /\ site[page_url].next # None
    /\ LET target == site[page_url].next
       IN  /\ \E p \in Renderings(target) : site' = [site EXCEPT ![target] = p]
           /\ page_url' = target
    /\ input_url' = page_url'
    /\ pc' = "goto"
    /\ ops' = ops \o <<"next", "click">>
    /\ UNCHANGED <<env, output_file, proxy_url, playwright, browser, proxied,
                   store, runs, iter, starts, stops, failure, visited, store0,
                   prev>>

\* Variant: input_url is set to the link's address before the click, which
\* raises.
NextClickFails_SetsTarget ==
    /\ pc = "next_button"
    /\ site[page_url].next # None
    /\ input_url' = site[page_url].next
    /\ failure' = "click"
    /\ pc' = "failed"
    /\ ops' = ops \o <<"next", "click">>
    /\ UNCHANGED <<env, output_file, proxy_url, playwright, browser, proxied,
                   page_url, site, store, runs, iter, starts, stops, visited,
                   store0, prev>>

\* The next button is found but click raises.
NextClickFails ==
    /\ pc = "next_button"
    /\ site[page_url].next # None
    /\ failure' = "click"
    /\ pc' = "failed"
    /\ ops' = ops \o <<"next", "click">>
    /\ UNCHANGED <<env, input_url, output_file, proxy_url, playwright, browser,
                   proxied, page_url, site, store, runs, iter, starts, stops,
                   visited, store0, prev>>

\* stop_playwright after the loop, then scrape and main return.
StopPlaywright ==
    /\ pc = "stop_playwright"
    /\ browser' = IF browser # "none" THEN "closed" ELSE browser
    /\ playwright' = IF playwright # "none" THEN "stopped" ELSE playwright
    /\ stops' = stops + 1
    /\ pc' = "done"
    /\ ops' = Append(ops, "stop")
    /\ UNCHANGED <<env, input_url, output_file, proxy_url, proxied, page_url,
                   site, store, runs, iter, starts, failure, visited, store0,
                   prev>>

Terminal == {"done", "failed", "not_started"}

\* The script is run again: a new process, the same site and output file.
Rerun ==
    /\ pc \in Terminal
    /\ runs < MaxRuns
    /\ runs' = runs + 1
    /\ prev' = [input |-> env.INPUT_URL, outcome |-> pc, store0 |-> store0,
                store1 |-> store, visited |-> visited]
    /\ store0' = store
    /\ pc' = "main"
    /\ env' = NoEnv
    /\ input_url' = None
    /\ output_file' = None
    /\ proxy_url' = None
    /\ playwright' = "none"
    /\ browser' = "none"
    /\ proxied' = FALSE
    /\ page_url' = None
    /\ iter' = 0
    /\ starts' = 0
    /\ stops' = 0
    /\ failure' = None
    /\ visited' = <<>>
    /\ ops' = <<>>
    /\ UNCHANGED <<site, store>>

Next ==
    \/ MainMissing
    \/ MainScrape
    \/ StartPlaywright
    \/ StartPlaywrightFails
    \/ Goto
    \/ GotoFails
    \/ WaitForQuotes
    \/ WaitForQuotesTimeout
    \/ ProcessPage
    \/ ProcessPageRaises
    \/ NextTimeout
    \/ NextClick
    \/ NextClickFails
    \/ StopPlaywright
    \/ Rerun

Spec == Init /\ [][Next]_vars

TypeOK ==
    /\ pc \in {"main", "start_playwright", "goto", "wait_for_quotes",
               "process_page", "next_button", "stop_playwright"} \cup Terminal
    /\ input_url \in Addrs \cup {None}
    /\ page_url \in Addrs \cup {None}
    /\ browser \in {"none", "open", "closed"}
    /\ iter \in 0..MaxIter
    /\ runs \in 1..MaxRuns


\* One run of the process. The process is sequential and each of its blocking
\* operations returns or raises, so a run that can take a step takes one.
NextRun ==
    \/ MainMissing
    \/ MainScrape
    \/ StartPlaywright
    \/ StartPlaywrightFails
    \/ Goto
    \/ GotoFails
    \/ WaitForQuotes
    \/ WaitForQuotesTimeout
    \/ ProcessPage
    \/ ProcessPageRaises
    \/ NextTimeout
    \/ NextClick
    \/ NextClickFails
    \/ StopPlaywright

SpecRun == Init /\ [][NextRun]_vars /\ WF_vars(NextRun)

\* ------------------------------------------- the extraction specification
\* A run that stands before the process_page call of its first page, on a
\* page with any containers, the output file empty or holding a record.
OldRecord == [text |-> <<"o">>, by |-> <<"p">>, tags |-> <<>>]

InitExtract ==
    /\ pc = "process_page"
    /\ env = [PROXY |-> "user:pw@host:8080", INPUT_URL |-> StartUrl,
              OUTPUT_FILE |-> "out.jsonl"]
    /\ input_url = StartUrl
    /\ output_file = "out.jsonl"
    /\ proxy_url = None
    /\ playwright = "started"
    /\ browser = "open"
    /\ proxied = FALSE
    /\ page_url = StartUrl
    /\ \E p \in AnyPages :
        /\ p.quotes # <<>>
        /\ site = [a \in Addrs |-> IF a = StartUrl THEN p ELSE Unfetched]
    /\ store \in {<<>>, <<OldRecord>>}
    /\ runs = 1
    /\ iter = 1
    /\ starts = 1
    /\ stops = 0
    /\ failure = None
    /\ visited = <<>>
    /\ store0 = store
    /\ prev = NoRun
    /\ ops = <<"start", "goto", "wait">>

NextExtract ==
    \/ ProcessPage
    \/ ProcessPageRaises

SpecExtract == InitExtract /\ [][NextExtract]_vars

\* ------------------------------------------- the text specification
\* A run that stands before the process_page call of a page with one
\* container whose span.text holds any text of up to MaxText characters.
Alphabet == {Quote, "a", "b"}

Texts == UNION {[1..n -> Alphabet] : n \in 0..MaxText}

InitText ==
    /\ pc = "process_page"
    /\ env = [PROXY |-> "user:pw@host:8080", INPUT_URL |-> StartUrl,
              OUTPUT_FILE |-> "out.jsonl"]
    /\ input_url = StartUrl
    /\ output_file = "out.jsonl"
    /\ proxy_url = None
    /\ playwright = "started"
    /\ browser = "open"
    /\ proxied = FALSE
    /\ page_url = StartUrl
    /\ \E t \in Texts :
        site = [a \in Addrs |->
                  IF a = StartUrl
                  THEN [fetched |-> TRUE,
                        quotes |-> <<[text |-> Found(t), author |-> Found(<<"x">>),
                                      tags |-> Found(<<>>)]>>,
                        next |-> None]
                  ELSE Unfetched]
    /\ store = <<>>
    /\ runs = 1
    /\ iter = 1
    /\ starts = 1
    /\ stops = 0
    /\ failure = None
    /\ visited = <<>>
    /\ store0 = <<>>
    /\ prev = NoRun
    /\ ops = <<"start", "goto", "wait">>

NextText == ProcessPage

SpecText == InitText /\ [][NextText]_vars

\* ------------------------------------------------ vocabulary of the claims
IsPrefix(s, t) == Len(s) <= Len(t) /\ SubSeq(t, 1, Len(s)) = s

\* The part of t after its first n elements.
Tail_(t, n) == SubSeq(t, n + 1, Len(t))

WellFormed(q) == q.text # NotFound /\ q.author # NotFound /\ q.tags # NotFound

\* Positions of the containers of a page that lack a sub-element.
Malformed(quotes) == {i \in 1..Len(quotes) : ~WellFormed(quotes[i])}

FirstMalformed(quotes) ==
    CHOOSE i \in Malformed(quotes) : \A j \in Malformed(quotes) : i <= j

\* The record a well-formed container is to give, stated on its own.
ExpText(s) == IF Len(s) < 2 THEN <<>> ELSE [j \in 1..(Len(s) - 2) |-> s[j + 1]]

RECURSIVE ExpTags(_)
ExpTags(children) ==
    IF children = <<>> THEN <<>>
    ELSE IF Head(children).cls = "tag"
         THEN <<Head(children).text>> \o ExpTags(Tail(children))
         ELSE ExpTags(Tail(children))

ExpRecord(q) ==
    [text |-> ExpText(q.text[1]), by |-> q.author[1], tags |-> ExpTags(q.tags[1])]

\* The records of the first n containers of a page.
ExpRecords(quotes, n) == [i \in 1..n |-> ExpRecord(quotes[i])]

\* The records of the first n pages of the chain of next-links from a.
RECURSIVE ChainRecords(_, _)
ChainRecords(a, n) ==
    IF n = 0 \/ a = None THEN <<>>
    ELSE ExpRecords(site[a].quotes, Len(site[a].quotes))
         \o ChainRecords(site[a].next, n - 1)

\* The first n addresses of the chain of next-links from a.
RECURSIVE ChainAddrs(_, _)
ChainAddrs(a, n) ==
    IF n = 0 \/ a = None THEN <<>>
    ELSE <<a>> \o ChainAddrs(site[a].next, n - 1)

InRun == pc \notin {"main", "not_started"}


\* ------------------------------------------------------------------ claims

\* C1: in every run whose session start succeeded, stop_playwright has been
\* executed exactly once when control is back at the caller, whether the run
\* ended normally (done) or with an exception (failed).
C1_StopOnEveryExit ==
    (pc \in {"done", "failed"} /\ starts = 1) => stops = 1

\* C2: when the lookup of the next link times out (the page has no next link),
\* the run terminates normally: it goes to stop_playwright and then to done
\* without an error, loads and extracts nothing more, and stops exactly once.
C2_NoNextIsNormalEnd ==
    /\ [][(pc = "next_button" /\ site[page_url].next = None)
            => (/\ pc' = "stop_playwright"
                /\ failure' = None
                /\ stops' = 0
                /\ UNCHANGED <<store, page_url, input_url, iter, visited>>)]_vars
    /\ [][pc = "stop_playwright"
            => (/\ pc' = "done"
                /\ failure' = None
                /\ stops' = 1
                /\ browser' = "closed"
                /\ UNCHANGED <<store, page_url, input_url, iter, visited>>)]_vars
    /\ [][pc = "done" => (pc' = "main" /\ runs' = runs + 1)]_vars

C2_Witness ==
    /\ pc = "done"
    /\ stops = 1
    /\ failure = None
    /\ site[page_url].next = None
    /\ visited # <<>>

\* C3: when the page has a next link, the loop follows it, input_url becomes
\* the browser's address after the click, the next goto loads that address,
\* and the page waited on and extracted next is the page at that address.
C3_FollowsNextLink ==
    /\ [][(pc = "next_button" /\ site[page_url].next # None /\ pc' # "failed")
            => (/\ pc' = "goto"
                /\ page_url' = site[page_url].next
                /\ input_url' = page_url')]_vars
    /\ [][(pc = "goto" /\ pc' # "failed")
            => (/\ pc' = "wait_for_quotes"
                /\ page_url' = input_url
                /\ input_url' = input_url)]_vars
    /\ [][(pc = "wait_for_quotes" /\ pc' # "failed")
            => (pc' = "process_page" /\ UNCHANGED <<page_url, input_url>>)]_vars
    /\ [](pc \in {"wait_for_quotes", "process_page"}
            => (/\ page_url = input_url
                /\ input_url = ChainAddrs(env.INPUT_URL, iter)[iter]))

C3_Witness ==
    /\ pc = "process_page"
    /\ iter = 2
    /\ input_url = site[env.INPUT_URL].next
    /\ input_url # env.INPUT_URL
    /\ page_url = input_url

\* C4: a run over a finite chain of pages that all render well-formed
\* records ends in done with the store holding, after what it held at the
\* start, the records of the pages in visit order, each page's records in
\* document order and once; a wait or an extraction fails only on a page
\* without containers or with a malformed one.
C4_StoreIsConcatenation ==
    /\ pc = "done" =>
        /\ store = store0 \o ChainRecords(env.INPUT_URL, iter)
        /\ visited = ChainAddrs(env.INPUT_URL, iter)
        /\ Len(visited) = iter
        /\ site[visited[iter]].next = None
    /\ (pc = "failed" /\ failure = "wait") => site[page_url].quotes = <<>>
    /\ (pc = "failed" /\ failure = "extract") => Malformed(site[page_url].quotes) # {}

C4_Witness ==
    /\ pc = "done"
    /\ store0 = <<>>
    /\ iter = 2
    /\ visited[1] # visited[2]
    /\ Len(site[visited[1]].quotes) = 1
    /\ Len(site[visited[2]].quotes) = 1
    /\ Len(store) = 2
    /\ store[1] = ExpRecord(site[visited[1]].quotes[1])
    /\ store[2] = ExpRecord(site[visited[2]].quotes[1])
    /\ browser = "closed"

\* C5 as stated: for a page with N well-formed containers one process_page
\* call appends exactly N records, each with non-empty text and author.
C5_NonEmptyFields ==
    [][(pc = "process_page" /\ Malformed(site[page_url].quotes) = {})
        => (/\ Len(store') = Len(store) + Len(site[page_url].quotes)
            /\ \A i \in (Len(store) + 1)..Len(store') :
                store'[i].text # <<>> /\ store'[i].by # <<>>)]_vars

\* C5 amended: for a page with N well-formed containers one process_page
\* call returns and appends exactly N records after the sink's content, each
\* with the fields text, by and tags; a record's text is non-empty exactly
\* when the source text has more than two characters and its author is
\* non-empty exactly when the author element has text.
C5_AppendsN ==
    [][(pc = "process_page" /\ Malformed(site[page_url].quotes) = {})
        => LET quotes == site[page_url].quotes
               N == Len(quotes)
           IN  /\ pc' = "next_button"
               /\ Len(store') = Len(store) + N
               /\ IsPrefix(store, store')
               /\ \A i \in 1..N :
                    LET r == store'[Len(store) + i]
                    IN  /\ DOMAIN r = {"text", "by", "tags"}
                        /\ Len(r.tags) >= 0
                        /\ (r.text # <<>>) <=> (Len(quotes[i].text[1]) > 2)
                        /\ (r.by # <<>>) <=> (quotes[i].author[1] # <<>>)]_vars

C5_Witness ==
    /\ pc = "next_button"
    /\ Len(site[page_url].quotes) = 2
    /\ Len(store) = Len(store0) + 2
    /\ store0 # <<>>
    /\ store[Len(store)].text = <<>>
    /\ store[Len(store) - 1].text # <<>>

\* C6 as stated: if a container of the page lacks a sub-element, the
\* process_page call fails and the sink is what it was before the call.
C6_AllOrNothing ==
    [][(pc = "process_page" /\ Malformed(site[page_url].quotes) # {})
        => (pc' = "failed" /\ store' = store)]_vars

\* C6 amended: if a container of the page lacks a sub-element, the
\* process_page call fails, and the sink is what it was before the call
\* followed by the records of the containers before the first such container.
C6_PartialPage ==
    [][(pc = "process_page" /\ Malformed(site[page_url].quotes) # {})
        => LET quotes == site[page_url].quotes
           IN  /\ pc' = "failed"
               /\ failure' = "extract"
               /\ store' = store \o ExpRecords(quotes, FirstMalformed(quotes) - 1)]_vars

C6_Witness ==
    /\ pc = "failed"
    /\ failure = "extract"
    /\ Malformed(site[page_url].quotes) = {2}
    /\ Len(store) = Len(store0) + 1
    /\ store0 # <<>>

\* C7: when the wait for a div.quote times out, the run fails: the page is
\* not extracted, no next link is looked up, nothing is appended, and nothing
\* else is done in the run; on the starting address the run has written no
\* record.
C7_WaitTimeoutFails ==
    /\ [][(pc = "wait_for_quotes" /\ site[page_url].quotes = <<>>)
            => (/\ pc' = "failed"
                /\ failure' = "wait"
                /\ UNCHANGED <<store, visited, page_url, input_url, iter>>)]_vars
    /\ [][(pc = "failed" /\ failure = "wait") => (pc' = "main" /\ runs' = runs + 1)]_vars
    /\ []((pc = "failed" /\ failure = "wait")
            => (/\ Len(visited) = iter - 1
                /\ (iter = 1 => store = store0)))

C7_Witness ==
    /\ pc = "failed"
    /\ failure = "wait"
    /\ iter = 1
    /\ page_url = env.INPUT_URL
    /\ site[page_url].quotes = <<>>
    /\ store = store0

\* C8: records are appended page by page: when the run has failed while
\* loading, extracting or paginating its k-th page, the store still holds,
\* after what it held at the start, the records of pages 1..k-1 in order.
C8_EarlierPagesKept ==
    /\ (pc = "failed" /\ iter >= 1) =>
            IsPrefix(store0 \o ChainRecords(env.INPUT_URL, iter - 1), store)
    /\ (pc = "failed" /\ failure \in {"goto", "wait"}) =>
            store = store0 \o ChainRecords(env.INPUT_URL, iter - 1)
    /\ (pc = "failed" /\ failure = "click") =>
            store = store0 \o ChainRecords(env.INPUT_URL, iter)
    /\ (pc = "next_button") => store = store0 \o ChainRecords(env.INPUT_URL, iter)

C8_Witness ==
    /\ pc = "failed"
    /\ failure = "extract"
    /\ iter = 2
    /\ Len(visited) = 1
    /\ Len(store) > Len(store0)
    /\ Tail_(store, Len(store0)) = ChainRecords(env.INPUT_URL, 1)

\* C9: the store is append-only within and across runs: in every step its
\* content before is a prefix of its content after, and a second run against
\* the same pages keeps the first run's records and appends the same records
\* again.
C9_AppendOnly ==
    /\ [][IsPrefix(store, store')]_vars
    /\ []((pc = "done" /\ prev.outcome = "done" /\ prev.input = env.INPUT_URL)
            => (/\ IsPrefix(prev.store1, store)
                /\ store0 = prev.store1
                /\ Tail_(store, Len(store0)) = Tail_(prev.store1, Len(prev.store0))))

C9_Witness ==
    /\ pc = "done"
    /\ runs = 2
    /\ prev.outcome = "done"
    /\ prev.input = env.INPUT_URL
    /\ prev.store1 # <<>>
    /\ store = prev.store1 \o prev.store1

\* C10: if the starting address or the output file path is missing from the
\* configuration, main returns without constructing a Scraper: no session is
\* started, no page is visited and the store is unchanged.
C10_MissingConfigNoRun ==
    /\ [][(pc = "main" /\ (env'.INPUT_URL = None \/ env'.OUTPUT_FILE = None))
            => (/\ pc' = "not_started"
                /\ input_url' = None
                /\ output_file' = None
                /\ UNCHANGED <<store, site, page_url, browser, playwright,
                               starts, iter, visited>>)]_vars
    /\ [][pc = "not_started" => (pc' = "main" /\ runs' = runs + 1)]_vars
    /\ [](pc = "not_started"
            => (/\ MissingVars(env) # {}
                /\ browser = "none"
                /\ playwright = "none"
                /\ starts = 0
                /\ iter = 0
                /\ page_url = None
                /\ store = store0))

C10_Witness ==
    /\ pc = "not_started"
    /\ env.INPUT_URL = None
    /\ env.PROXY # None
    /\ env.OUTPUT_FILE # None
    /\ browser = "none"

\* C11 as stated: the proxy string is optional: with the starting address and
\* the output file path present and the proxy string absent, main starts the
\* run (scrape is entered).
C11_ProxyOptional ==
    [][(/\ pc = "main"
        /\ env'.INPUT_URL # None
        /\ env'.OUTPUT_FILE # None
        /\ env'.PROXY = None)
        => pc' = "start_playwright"]_vars

\* C12: no failed operation is retried: once an operation of the run has
\* raised, the run attempts no further navigation, wait, extraction or
\* next-link lookup; the failed operation is the last one of the run.
FailedOp ==
    [start |-> "start", goto |-> "goto", wait |-> "wait", extract |-> "extract",
     click |-> "click"]

C12_NoRetry ==
    /\ [][failure # None
            => (pc' = "main" /\ runs' = runs + 1 /\ ops' = <<>>)]_vars
    /\ [](failure # None
            => (/\ pc = "failed"
                /\ failure \in DOMAIN FailedOp
                /\ ops # <<>>
                /\ ops[Len(ops)] = FailedOp[failure]))
    /\ []((failure \in {"goto", "wait", "extract"})
            => Cardinality({k \in 1..Len(ops) : ops[k] = FailedOp[failure]}) = iter)

C12_Witness ==
    /\ pc = "failed"
    /\ failure = "goto"
    /\ iter = 2
    /\ ops = <<"start", "goto", "wait", "extract", "next", "click", "goto">>

Range(s) == {s[k] : k \in 1..Len(s)}

Distinct(s) == \A j, k \in 1..Len(s) : s[j] = s[k] => j = k

Count(s, x) == Cardinality({k \in 1..Len(s) : s[k] = x})

\* The next link of the page extracted last leads to a page already
\* extracted in this run: the next-links do not form a finite chain.
CycleAhead ==
    /\ visited # <<>>
    /\ site[visited[Len(visited)]].next \in Range(visited)

\* C13: on a site whose next-links form a finite chain, where every operation
\* returns or raises, the run reaches a terminal state; it is done unless an
\* operation raised (a wait or an extraction raises only on a page without
\* containers or with a malformed one), and a done run has loaded and
\* extracted each page of the chain exactly once, in chain order.
C13_Terminates ==
    /\ (pc = "main") ~> (pc \in Terminal \/ (pc = "goto" /\ CycleAhead))
    /\ [](pc = "done"
            => (/\ visited = ChainAddrs(env.INPUT_URL, Len(visited))
                /\ Distinct(visited)
                /\ site[visited[Len(visited)]].next = None
                /\ Count(ops, "goto") = Len(visited)
                /\ Count(ops, "extract") = Len(visited)))
    /\ []((pc = "failed" /\ failure = "wait") => site[page_url].quotes = <<>>)
    /\ []((pc = "failed" /\ failure = "extract")
            => \E i \in 1..Len(site[page_url].quotes) :
                    ~WellFormed(site[page_url].quotes[i]))

C13_Witness ==
    /\ pc = "done"
    /\ visited = <<StartUrl, site[StartUrl].next>>
    /\ Distinct(visited)
    /\ ops = <<"start", "goto", "wait", "extract", "next", "click",
               "goto", "wait", "extract", "next", "stop">>

\* C14: text extraction drops exactly the first and the last character: for
\* a source text of length n >= 2 the stored text has length n - 2 and is the
\* source text's characters 2..n-1, whatever its first and last characters.
C14_StripsOneEachEnd ==
    [][pc = "process_page"
        => LET s == site[page_url].quotes[1].text[1]
               n == Len(s)
               r == store'[Len(store')]
           IN  n >= 2 =>
                /\ Len(store') = Len(store) + 1
                /\ Len(r.text) = n - 2
                /\ \A j \in 1..(n - 2) : r.text[j] = s[j + 1]]_vars

C14_Witness ==
    /\ pc = "next_button"
    /\ Len(store) = 1
    /\ LET s == site[page_url].quotes[1].text[1]
       IN  /\ Len(s) = 4
           /\ s[1] = "a"
           /\ s[4] = "b"
           /\ store[1].text = <<s[2], s[3]>>

\* C15: a record whose tag container has no tag sub-element is stored with a
\* tags field whose value is the empty sequence; in general the stored tags
\* are the texts of the container's tag sub-elements in document order.
C15_TagsInDocumentOrder ==
    [][(pc = "process_page" /\ pc' = "next_button")
        => LET quotes == site[page_url].quotes
           IN  \A i \in 1..Len(quotes) :
                LET r == store'[Len(store) + i]
                    children == quotes[i].tags[1]
                IN  /\ "tags" \in DOMAIN r
                    /\ r.tags = ExpTags(children)
                    /\ (\A k \in 1..Len(children) : children[k].cls # "tag")
                            => r.tags = <<>>]_vars

C15_Witness ==
    /\ pc = "next_button"
    /\ Len(site[page_url].quotes) = 2
    /\ site[page_url].quotes[1].tags = Found(<<MetaNode>>)
    /\ site[page_url].quotes[2].tags =
            Found(<<TagLink(<<"t">>), MetaNode, TagLink(<<"u">>)>>)
    /\ store[Len(store) - 1].tags = <<>>
    /\ store[Len(store)].tags = << <<"t">>, <<"u">> >>

\* C16: when extraction meets a container that lacks a sub-element, the run
\* fails at that container: no record of that container or of a later one of
\* the page is ever in the store, and the run looks up no next link and
\* loads no further page.
C16_FailsAtMalformed ==
    /\ [][(pc = "process_page" /\ Malformed(site[page_url].quotes) # {})
            => (/\ pc' = "failed"
                /\ failure' = "extract"
                /\ Len(store') - Len(store) = FirstMalformed(site[page_url].quotes) - 1
                /\ UNCHANGED <<page_url, input_url, iter, visited>>)]_vars
    /\ [](\A a \in Addrs :
            LET quotes == site[a].quotes
            IN  Malformed(quotes) # {} =>
                    \A j \in FirstMalformed(quotes)..Len(quotes) :
                        WellFormed(quotes[j]) => ExpRecord(quotes[j]) \notin Range(store))
    /\ [](failure = "extract"
            => (/\ ops[Len(ops)] = "extract"
                /\ Count(ops, "next") = iter - 1
                /\ Count(ops, "goto") = iter
                /\ page_url \notin Range(visited)))

C16_Witness ==
    /\ pc = "failed"
    /\ failure = "extract"
    /\ Len(site[page_url].quotes) = 2
    /\ Malformed(site[page_url].quotes) = {1}
    /\ iter = 2
    /\ Len(store) = Len(store0) + Len(site[StartUrl].quotes)

\* The operation that may come right after an operation of a run.
Follows ==
    {<<"start", "goto">>, <<"goto", "wait">>, <<"wait", "extract">>,
     <<"extract", "next">>, <<"next", "click">>, <<"next", "stop">>,
     <<"click", "goto">>}

\* C17: the operations of a run are strictly ordered: the session is started
\* once, before any navigation; each iteration is goto, wait, extraction,
\* next-link lookup; a page is extracted only after its wait returned and its
\* next link is looked up only after its extraction returned.
C17_OperationOrder ==
    /\ ops # <<>> => (ops[1] = "start" /\ Count(ops, "start") = 1)
    /\ \A k \in 1..(Len(ops) - 1) : <<ops[k], ops[k + 1]>> \in Follows
    /\ pc = "wait_for_quotes" => (ops[Len(ops)] = "goto" /\ failure = None)
    /\ pc = "process_page" =>
            (ops[Len(ops)] = "wait" /\ failure = None /\ site[page_url].quotes # <<>>)
    /\ pc = "next_button" =>
            (/\ ops[Len(ops)] = "extract"
             /\ failure = None
             /\ visited[Len(visited)] = page_url
             /\ Malformed(site[page_url].quotes) = {})
    /\ Count(ops, "goto") = iter
    /\ Count(ops, "extract") <= Count(ops, "wait")
    /\ Count(ops, "next") <= Count(ops, "extract")

C17_Witness ==
    /\ pc = "process_page"
    /\ ops = <<"start", "goto", "wait", "extract", "next", "click", "goto", "wait">>

\* The number of clicks of this run that returned.
Clicked == Count(ops, "click") - (IF failure = "click" THEN 1 ELSE 0)

\* C18: within a run input_url changes only in the step that found and
\* followed a next link, at most once per loop iteration; session start,
\* goto, the wait, extraction, a next-link timeout, a failure and stop leave
\* it as it is.
C18_TargetChangesOnClick ==
    /\ [][(pc # "main" /\ pc' # "main" /\ input_url' # input_url)
            => (/\ pc = "next_button"
                /\ site[page_url].next # None
                /\ pc' = "goto"
                /\ input_url' = site[page_url].next
                /\ input_url' = page_url'
                /\ iter' = iter
                /\ ops' = ops \o <<"next", "click">>)]_vars
    /\ [](pc \notin {"main", "not_started"}
            => (/\ Clicked <= iter
                /\ input_url = ChainAddrs(env.INPUT_URL, Clicked + 1)[Clicked + 1]))

C18_Witness ==
    /\ pc = "goto"
    /\ iter = 1
    /\ input_url # env.INPUT_URL
    /\ input_url = site[env.INPUT_URL].next
    /\ Count(ops, "click") = 1

\* Some page extracted in this run links to itself or to a page extracted
\* before it:
\* the next-links from the starting address form a cycle.
Cyclic ==
    \E k \in 1..Len(visited) : \E j \in 1..k : site[visited[k]].next = visited[j]

\* C19: the loop keeps no record of visited addresses: when the next-links
\* form a cycle of pages with well-formed records, the run never stops
\* normally; it loads the pages of the cycle again and appends their records
\* again, so the store grows with every iteration, until an operation raises
\* (in the model: or the iteration bound is reached).
C19_CycleNeverDone ==
    /\ [](Cyclic => pc \notin {"stop_playwright", "done"})
    /\ [][(pc = "process_page" /\ page_url \in Range(visited) /\ pc' = "next_button")
            => (/\ store' = store \o ExpRecords(site[page_url].quotes,
                                                Len(site[page_url].quotes))
                /\ Len(store') > Len(store)
                /\ \A r \in Range(Tail_(store', Len(store))) :
                        r \in Range(Tail_(store, Len(store0))))]_vars
    /\ [](pc = "next_button" => Len(store) >= Len(store0) + iter)
    /\ (pc = "goto" /\ CycleAhead) ~> (pc = "failed" \/ (pc = "goto" /\ iter = MaxIter))

C19_Witness ==
    /\ pc = "next_button"
    /\ iter = 3
    /\ visited = <<StartUrl, site[StartUrl].next, StartUrl>>
    /\ site[StartUrl].next # StartUrl
    /\ store = ChainRecords(StartUrl, 2)
                \o ExpRecords(site[StartUrl].quotes, Len(site[StartUrl].quotes))

====
